---- MODULE Spec2Model ----
(***************************************************************************)
(* A model of dicebot.py, a Slack slash-command dice roller: the roll      *)
(* grammar parser (parse_roll), the roll generator (generate_roll), the    *)
(* result formatters and the four route handlers.                          *)
(*                                                                         *)
(* A command text is a sequence of one-character strings; int() and str() *)
(* are computed digit by digit.  A raised exception is a result record     *)
(* whose exc field names the exception class.  random.randint reads a      *)
(* random source, a natural number whose base-die digits are the draws.    *)
(***************************************************************************)
EXTENDS Integers, Sequences, FiniteSets, TLC

VARIABLES
    pc,            \* the step of the route handler that runs next
    command,       \* the route: /roll, /adv, /dis or /character
    request_form,  \* the posted Slack form
    slack_dict,    \* what parse_slack_message returned
    parsed_roll,   \* what parse_roll returned
    rolled_dice,   \* the dicts generate_roll returned, in call order
    output,        \* the formatted text
    response,      \* the Slack reply
    entropy,       \* the random source: the digits not yet drawn
    draws          \* every value random.randint has returned, in order

vars == <<pc, command, request_form, slack_dict, parsed_roll, rolled_dice,
          output, response, entropy, draws>>

-----------------------------------------------------------------------------
(* Bounds of the model.                                                    *)

\* longest command text enumerated character by character
MaxLen == 6
\* the random source is a natural number below MaxEntropy + 1
MaxEntropy == 35
\* largest |modifier| and largest number of dice / die size given directly
\* to generate_roll
MaxMod == 2
MaxDice == 3
MaxDie == 3
\* largest face of a die handed directly to the formatters
MaxFace == 11
\* largest face in the stat-block outcomes handed to format_character_roll
MaxStatFace == 2

-----------------------------------------------------------------------------
(* Python strings.                                                         *)

\* the characters command texts are built from
Char == {"0", "1", "d", "+", "-", " ", "_"}

Digits == <<"0", "1", "2", "3", "4", "5", "6", "7", "8", "9">>

IsDigit(c) == \E i \in 1..10 : Digits[i] = c

DigitVal(c) == (CHOOSE i \in 1..10 : Digits[i] = c) - 1

\* all strings over Char of length at most n
Strings(n) == UNION {[1..k -> Char] : k \in 0..n}

\* s.replace(c, "")
RECURSIVE Remove(_, _)
Remove(s, c) ==
    IF s = <<>> THEN <<>>
    ELSE IF Head(s) = c THEN Remove(Tail(s), c)
    ELSE <<Head(s)>> \o Remove(Tail(s), c)

\* s.find(c): the 0-based index of the first c in s, -1 when there is none
find(s, c) ==
    IF \E i \in 1..Len(s) : s[i] = c
    THEN (CHOOSE i \in 1..Len(s) : s[i] = c /\ \A j \in 1..(i - 1) : s[j] # c) - 1
    ELSE -1

\* s[a:b] for 0 <= a
Slice(s, a, b) == SubSeq(s, a + 1, IF b > Len(s) THEN Len(s) ELSE b)

\* the value of a sequence of digits and underscores, underscores skipped
RECURSIVE DigitsValue(_)
DigitsValue(s) ==
    IF s = <<>> THEN 0
    ELSE IF s[Len(s)] = "_" THEN DigitsValue(SubSeq(s, 1, Len(s) - 1))
    ELSE 10 * DigitsValue(SubSeq(s, 1, Len(s) - 1)) + DigitVal(s[Len(s)])

\* what int() accepts after the optional sign: digits, with single
\* underscores allowed between two digits
IsIntBody(s) ==
    /\ Len(s) > 0
    /\ \A i \in 1..Len(s) : IsDigit(s[i]) \/ s[i] = "_"
    /\ IsDigit(s[1])
    /\ IsDigit(s[Len(s)])
    /\ \A i \in 1..(Len(s) - 1) : ~(s[i] = "_" /\ s[i + 1] = "_")

\* int(s) of a str over Char and the digits: [ok |-> FALSE] stands for
\* ValueError
int(s) ==
    LET signed == Len(s) > 0 /\ s[1] \in {"+", "-"}
        body == IF signed THEN Tail(s) ELSE s
    IN IF ~IsIntBody(body) THEN [ok |-> FALSE, val |-> 0]
       ELSE [ok |-> TRUE,
             val |-> IF signed /\ s[1] = "-" THEN 0 - DigitsValue(body)
                     ELSE DigitsValue(body)]

\* str(n) of an integer
RECURSIVE str(_)
str(n) ==
    IF n < 0 THEN <<"-">> \o str(0 - n)
    ELSE IF n < 10 THEN <<Digits[n + 1]>>
    ELSE str(n \div 10) \o <<Digits[(n % 10) + 1]>>

-----------------------------------------------------------------------------
(* parse_roll                                                              *)

ParseError(msg) ==
    [ok |-> FALSE, exc |-> "DicebotException", error |-> msg,
     num_dice |-> 0, die |-> 0, modifier |-> 0]

ParseOk(n, d, m) ==
    [ok |-> TRUE, exc |-> "", error |-> "",
     num_dice |-> n, die |-> d, modifier |-> m]

\* the roll text of each mode
input_roll_string(input_string, adv_or_dis, character) ==
    IF adv_or_dis THEN <<"2", "d", "2", "0">> \o input_string
    ELSE IF character THEN <<"3", "d", "6">>
    ELSE input_string

\* the length window of the roll text
LengthOk(roll_string) == ~(Len(roll_string) < 3 \/ Len(roll_string) > 11)

\* which modifier branch the sign search selects
modifier_branch(plus_pos, minus_pos) ==
    IF plus_pos > 0 THEN "plus"
    ELSE IF minus_pos > 0 THEN "minus"
    ELSE "none"

\* the die-size text: from after the 'd' to the chosen sign, or to the end
die_field(roll_string, d_position, plus_pos, minus_pos) ==
    CASE modifier_branch(plus_pos, minus_pos) = "plus" ->
             Slice(roll_string, d_position + 1, plus_pos)
      [] modifier_branch(plus_pos, minus_pos) = "minus" ->
             Slice(roll_string, d_position + 1, minus_pos)
      [] OTHER -> Slice(roll_string, d_position + 1, Len(roll_string))

\* (a variant that cuts after the '-', as the '+' branch does)
minus_modifier_dropping_sign(roll_string, minus_pos) ==
    Slice(roll_string, minus_pos + 1, Len(roll_string))

\* a '-' modifier keeps its sign character
minus_modifier(roll_string, minus_pos) ==
    Slice(roll_string, minus_pos, Len(roll_string))

\* the modifier text: after the '+', from the '-' on, or the integer 0
\* (written "0": int(0) = int("0") = 0)
modifier_field(roll_string, plus_pos, minus_pos) ==
    CASE modifier_branch(plus_pos, minus_pos) = "plus" ->
             Slice(roll_string, plus_pos + 1, Len(roll_string))
      [] modifier_branch(plus_pos, minus_pos) = "minus" ->
             minus_modifier(roll_string, minus_pos)
      [] OTHER -> <<"0">>

parse_roll(input_string, adv_or_dis, character) ==
    LET roll_string == Remove(input_roll_string(input_string, adv_or_dis, character), " ")
        d_position == find(roll_string, "d")
        num_dice == Slice(roll_string, 0, d_position)
        plus_pos == find(roll_string, "+")
        minus_pos == find(roll_string, "-")
        die_value == die_field(roll_string, d_position, plus_pos, minus_pos)
        roll_modifier == modifier_field(roll_string, plus_pos, minus_pos)
    IN IF ~LengthOk(roll_string) THEN ParseError("Roll string too short")
       ELSE IF d_position < 0 THEN ParseError("'d' found in incorrect position")
       ELSE IF ~int(num_dice).ok
            THEN ParseError("Non digit found in the number of dice provided")
       ELSE IF Len(die_value) = 0 THEN ParseError("No dice value provided")
       ELSE IF ~int(die_value).ok THEN ParseError("Non digit found in the dice value")
       ELSE IF int(die_value).val <= 0 THEN ParseError("Die value can not be 0 or less")
       ELSE IF int(num_dice).val <= 0
            THEN ParseError("Number of dice can not be 0 or less")
       ELSE IF ~int(roll_modifier).ok THEN ParseError("Invalid roll modifer")
       ELSE ParseOk(int(num_dice).val, int(die_value).val, int(roll_modifier).val)

-----------------------------------------------------------------------------
(* generate_roll                                                           *)

\* (a variant whose range is one too wide)
randint_past_die(a, b, e) == a + (e % (b - a + 2))

\* random.randint(a, b) reading the random source e: every value of a..b
\* is drawn for some e
randint(a, b, e) == a + (e % (b - a + 1))

\* the for loop: num_dice draws, appended in draw order; each draw uses
\* up one base-die_value digit of the random source
RECURSIVE draw_rolls(_, _, _)
draw_rolls(num_dice, die_value, e) ==
    IF num_dice <= 0 THEN <<>>
    ELSE <<randint(1, die_value, e)>> \o draw_rolls(num_dice - 1, die_value, e \div die_value)

\* the values random.randint returns to a call that draws num_dice times
randint_log(num_dice, die_value, e) ==
    [i \in 1..num_dice |-> randint(1, die_value, e \div (die_value ^ (i - 1)))]

\* the random source after num_dice draws
RECURSIVE entropy_after(_, _, _)
entropy_after(num_dice, die_value, e) ==
    IF num_dice <= 0 THEN e
    ELSE entropy_after(num_dice - 1, die_value, e \div die_value)

\* sum(rolls)
RECURSIVE sum(_)
sum(rolls) == IF rolls = <<>> THEN 0 ELSE Head(rolls) + sum(Tail(rolls))

GenerateError(msg) ==
    [ok |-> FALSE, exc |-> "DicebotException", error |-> msg,
     total |-> 0, rolls |-> <<>>, modifier |-> 0]

\* roll_dict is always a dict with the three integer keys here, so the
\* isinstance, key and int() checks of lines 172-187 pass
generate_roll(roll_dict, e) ==
    LET num_dice == roll_dict.num_dice
        die_value == roll_dict.die
        modifier == roll_dict.modifier
        rolls == draw_rolls(num_dice, die_value, e)
    IN IF num_dice <= 0 THEN GenerateError("Invalid number of dice")
       ELSE IF die_value <= 0 THEN GenerateError("Invalid die value")
       ELSE [ok |-> TRUE, exc |-> "", error |-> "",
             total |-> sum(rolls) + modifier, rolls |-> rolls, modifier |-> modifier]

\* the dict generate_roll returns
Outcome(r) == [total |-> r.total, rolls |-> r.rolls, modifier |-> r.modifier]

-----------------------------------------------------------------------------
(* The formatters.  A rendered string is the sequence of its fragments,    *)
(* "".join being concatenation; a literal of the source is one fragment    *)
(* and str(n) is the sequence of the digits of n.                          *)

FormatError(msg) == [ok |-> FALSE, exc |-> "DicebotException", error |-> msg, text |-> <<>>]

FormatRaised(cls) == [ok |-> FALSE, exc |-> cls, error |-> cls, text |-> <<>>]

FormatOk(text) == [ok |-> TRUE, exc |-> "", error |-> "", text |-> text]

Emph(n) == <<"*">> \o str(n) \o <<"*">>

Strike(n) == <<"~">> \o str(n) \o <<"~">>

format_standard_roll(rolled, username, roll) ==
    FormatOk(<<"_">> \o username \o <<" rolled ">> \o str(roll.num_dice) \o <<"d">>
             \o str(roll.die) \o <<" = ">> \o Emph(rolled.total) \o <<"_", "\n">>)

\* (a variant with the comparison of the disadvantage block)
adv_block_keeping_lower(rolls) ==
    IF rolls[1] <= rolls[2]
    THEN [text |-> Emph(rolls[1]) \o <<" ">> \o Strike(rolls[2]), result |-> rolls[1]]
    ELSE [text |-> Strike(rolls[1]) \o <<" ">> \o Emph(rolls[2]), result |-> rolls[2]]

\* the advantage block: the two dice in roll order, the higher emphasised
adv_block(rolls) ==
    IF rolls[1] >= rolls[2]
    THEN [text |-> Emph(rolls[1]) \o <<" ">> \o Strike(rolls[2]), result |-> rolls[1]]
    ELSE [text |-> Strike(rolls[1]) \o <<" ">> \o Emph(rolls[2]), result |-> rolls[2]]

\* the disadvantage block: the lower emphasised
dis_block(rolls) ==
    IF rolls[1] <= rolls[2]
    THEN [text |-> Emph(rolls[1]) \o <<" ">> \o Strike(rolls[2]), result |-> rolls[1]]
    ELSE [text |-> Strike(rolls[1]) \o <<" ">> \o Emph(rolls[2]), result |-> rolls[2]]

\* " (+N)", " (-N)" or nothing
modifier_text(modifier) ==
    IF modifier > 0 THEN <<" (+">> \o str(modifier) \o <<")">>
    ELSE IF modifier < 0 THEN <<" (">> \o str(modifier) \o <<")">>
    ELSE <<>>

format_adv_dis_roll(rolled, username, roll, adv, dis) ==
    LET header == (IF adv THEN username \o <<" rolled at Advantage:">> ELSE <<>>)
                  \o (IF dis THEN username \o <<" rolled at Disadvantage:">> ELSE <<>>)
                  \o <<"\n">>
        rolls == rolled.rolls
        result == IF dis THEN dis_block(rolls).result ELSE adv_block(rolls).result
    IN IF roll.num_dice # 2
       THEN FormatError("Trying to format adv/dis roll with more than 2d20")
       ELSE IF adv /\ Len(rolls) < 2
       THEN FormatError("format_adv_dis_roll had a problem rolling at advantage")
       ELSE IF dis /\ Len(rolls) < 2
       THEN FormatError("format_adv_dis_roll had a problem rolling at disadvantage")
       ELSE IF ~adv /\ ~dis THEN FormatRaised("UnboundLocalError")
       ELSE FormatOk(header
                     \o (IF adv THEN adv_block(rolls).text ELSE <<>>)
                     \o (IF dis THEN dis_block(rolls).text ELSE <<>>)
                     \o modifier_text(rolled.modifier)
                     \o <<" = ">> \o Emph(result + rolled.modifier) \o <<"\n">>)

\* x placed into the ascending sequence s, after the elements equal to it
RECURSIVE insert_sorted(_, _)
insert_sorted(s, x) ==
    IF s = <<>> THEN <<x>>
    ELSE IF x < Head(s) THEN <<x>> \o s
    ELSE <<Head(s)>> \o insert_sorted(Tail(s), x)

\* (a variant that sorts descending)
RECURSIVE sorted_desc(_)
sorted_desc(rolls) ==
    IF rolls = <<>> THEN <<>>
    ELSE LET m == CHOOSE i \in 1..Len(rolls) : \A j \in 1..Len(rolls) : rolls[i] >= rolls[j]
         IN <<rolls[m]>> \o sorted_desc(SubSeq(rolls, 1, m - 1) \o SubSeq(rolls, m + 1, Len(rolls)))

\* sorted(rolls, key=int): ascending
RECURSIVE sorted(_)
sorted(rolls) ==
    IF rolls = <<>> THEN <<>>
    ELSE insert_sorted(sorted(SubSeq(rolls, 1, Len(rolls) - 1)), rolls[Len(rolls)])

\* one line of the stat block, for an outcome of at least four rolls
stat_line(rolls) ==
    LET sorted_rolls == sorted(rolls)
    IN Strike(sorted_rolls[1]) \o <<" ">>
       \o str(sorted_rolls[2]) \o <<" + ">>
       \o str(sorted_rolls[3]) \o <<" + ">>
       \o str(sorted_rolls[4]) \o <<" = ">>
       \o Emph(sorted_rolls[2] + sorted_rolls[3] + sorted_rolls[4])
       \o <<"\n">>

RECURSIVE stat_lines(_)
stat_lines(roll_list) ==
    IF roll_list = <<>> THEN <<>>
    ELSE stat_line(Head(roll_list).rolls) \o stat_lines(Tail(roll_list))

\* the number of outcomes of a stat block
StatBlockOutcomes == 6

format_character_roll(roll_list, username) ==
    IF Len(roll_list) # StatBlockOutcomes
    THEN FormatError("Incorrect number of rolls in the stat block")
    ELSE IF \E i \in 1..Len(roll_list) : Len(roll_list[i].rolls) < 4
    THEN FormatError("Unable to print statblock")
    ELSE FormatOk(username \o <<" rolled a stat block:", "\n">> \o stat_lines(roll_list))

-----------------------------------------------------------------------------
(* The Slack layer.                                                        *)

Commands == {"/roll", "/adv", "/dis", "/character"}

FormKeys == {"user_name", "command", "text", "channel_name"}

NoDict == [ok |-> FALSE, exc |-> "", username |-> <<>>, command |-> "",
           text |-> <<>>, channel_name |-> ""]

\* a missing key builds its message with str + dict, which raises TypeError
parse_slack_message(slack_message) ==
    IF \E k \in FormKeys : k \notin slack_message.keys
    THEN [NoDict EXCEPT !.exc = "TypeError"]
    ELSE [ok |-> TRUE, exc |-> "", username |-> slack_message.user_name,
          command |-> slack_message.command, text |-> slack_message.text,
          channel_name |-> slack_message.channel_name]

\* (a variant that ignores in_channel and always replies in the channel)
generate_slack_response_always_public(text, in_channel) ==
    [response_type |-> "in_channel", text |-> text]

generate_slack_response(text, in_channel) ==
    [response_type |-> IF in_channel THEN "in_channel" ELSE "ephemeral",
     text |-> text]

NoResponse == [response_type |-> "", text |-> <<>>]

\* the usage hint each route appends to a DicebotException
Usage(cmd) ==
    CASE cmd = "/roll" -> "\n Please use /roll <num>d<num> (+/-)<num>"
      [] cmd = "/adv" -> "\n Please use /adv (+/-)<num>"
      [] cmd = "/dis" -> "\n Please use /dis (+/-)<num>"
      [] OTHER -> "\n Please use /character"

\* the two except clauses of a route
ErrorResponse(cmd, raised) ==
    IF raised.exc = "DicebotException"
    THEN generate_slack_response(<<"error: ", raised.error, Usage(cmd)>>, FALSE)
    ELSE generate_slack_response(<<"Hmm....something went wrong. Try again?">>, FALSE)

\* how many times a route calls generate_roll
GenerateCalls(cmd) == IF cmd = "/character" THEN 6 ELSE 1

\* the formatter of each route
FormatFor(cmd, rolled, username, roll) ==
    CASE cmd = "/roll" -> format_standard_roll(rolled[1], username, roll)
      [] cmd = "/adv" -> format_adv_dis_roll(rolled[1], username, roll, TRUE, FALSE)
      [] cmd = "/dis" -> format_adv_dis_roll(rolled[1], username, roll, FALSE, TRUE)
      [] OTHER -> format_character_roll(rolled, username)

-----------------------------------------------------------------------------
(* The steps of a route handler.                                           *)

\* slack_dict = parse_slack_message(request.form)
ParseSlackMessage ==
    /\ pc = "slack"
    /\ LET d == parse_slack_message(request_form)
       IN /\ slack_dict' = d
          /\ IF d.ok
             THEN pc' = "parse" /\ response' = response
             ELSE pc' = "done" /\ response' = ErrorResponse(command, d)
    /\ UNCHANGED <<command, request_form, parsed_roll, rolled_dice, output, entropy, draws>>

\* parsed_roll = parse_roll(slack_dict["text"], ...)
ParseRoll ==
    /\ pc = "parse"
    /\ LET r == parse_roll(slack_dict.text, command \in {"/adv", "/dis"},
                           command = "/character")
       IN /\ parsed_roll' = r
          /\ IF r.ok
             THEN pc' = "generate" /\ response' = response
             ELSE pc' = "done" /\ response' = ErrorResponse(command, r)
    /\ UNCHANGED <<command, request_form, slack_dict, rolled_dice, output, entropy, draws>>

\* one call of generate_roll(parsed_roll); /character makes six
GenerateRoll ==
    /\ pc = "generate"
    /\ LET r == generate_roll(parsed_roll, entropy)
       IN IF r.ok
          THEN /\ rolled_dice' = Append(rolled_dice, Outcome(r))
               /\ entropy' = entropy_after(parsed_roll.num_dice, parsed_roll.die, entropy)
               /\ draws' = draws \o randint_log(parsed_roll.num_dice, parsed_roll.die, entropy)
               /\ pc' = IF Len(rolled_dice) + 1 >= GenerateCalls(command)
                        THEN "format" ELSE "generate"
               /\ response' = response
          ELSE /\ pc' = "done"
               /\ response' = ErrorResponse(command, r)
               /\ UNCHANGED <<rolled_dice, entropy, draws>>
    /\ UNCHANGED <<command, request_form, slack_dict, parsed_roll, output>>

\* output = format_...(...) and the reply
FormatRoll ==
    /\ pc = "format"
    /\ LET f == FormatFor(command, rolled_dice, slack_dict.username, parsed_roll)
       IN IF f.ok
          THEN /\ output' = f.text
               /\ response' = generate_slack_response(f.text, TRUE)
          ELSE /\ output' = output
               /\ response' = ErrorResponse(command, f)
    /\ pc' = "done"
    /\ UNCHANGED <<command, request_form, slack_dict, parsed_roll, rolled_dice, entropy, draws>>

-----------------------------------------------------------------------------
(* Specifications.                                                         *)

User == <<"al">>

Form(cmd, text) ==
    [keys |-> FormKeys, user_name |-> User, command |-> cmd, text |-> text,
     channel_name |-> "general"]

Unset == [ParseError("") EXCEPT !.exc = ""]

\* command texts of the whole-route specification
SampleTexts ==
    { <<>>,
      <<"+", "1">>,
      <<"-", "2">>,
      <<"0">>,
      <<"+", "-", "1">>,
      <<"d">>,
      <<"1", "d", "2">>,
      <<"2", "d", "2", "+", "1">>,
      <<"2", " ", "d", "3", " ", "-", "1">>,
      <<"0", "d", "1">> }

\* a request arrives at one of the four routes
Init ==
    /\ pc = "slack"
    /\ command \in Commands
    /\ \E text \in SampleTexts, present \in {FormKeys, FormKeys \ {"text"}} :
           request_form = [Form(command, text) EXCEPT !.keys = present]
    /\ slack_dict = NoDict
    /\ parsed_roll = Unset
    /\ rolled_dice = <<>>
    /\ output = <<>>
    /\ response = NoResponse
    /\ entropy \in 0..MaxEntropy
    /\ draws = <<>>

Next == ParseSlackMessage \/ ParseRoll \/ GenerateRoll \/ FormatRoll

Spec == Init /\ [][Next]_vars

\* parse_roll on every text of at most MaxLen characters, in each mode
InitParse ==
    /\ pc = "parse"
    /\ command \in {"/roll", "/adv", "/character"}
    /\ \E text \in Strings(MaxLen) :
           /\ request_form = Form(command, text)
           /\ slack_dict = parse_slack_message(Form(command, text))
    /\ parsed_roll = Unset
    /\ rolled_dice = <<>>
    /\ output = <<>>
    /\ response = NoResponse
    /\ entropy = 0
    /\ draws = <<>>

SpecParse == InitParse /\ [][ParseRoll]_vars

\* parse_roll in Standard mode alone
InitParseStandard == InitParse /\ command = "/roll"

SpecParseStandard == InitParseStandard /\ [][ParseRoll]_vars

\* generate_roll on every small roll dict, valid or not
InitGen ==
    /\ pc = "generate"
    /\ command = "/roll"
    /\ request_form = Form(command, <<>>)
    /\ slack_dict = parse_slack_message(request_form)
    /\ \E n \in (0 - 1)..MaxDice, d \in (0 - 1)..MaxDie, m \in (0 - MaxMod)..MaxMod :
           parsed_roll = ParseOk(n, d, m)
    /\ rolled_dice = <<>>
    /\ output = <<>>
    /\ response = NoResponse
    /\ entropy \in 0..MaxEntropy
    /\ draws = <<>>

SpecGen == InitGen /\ [][GenerateRoll]_vars

\* format_adv_dis_roll on every two-roll outcome of small dice
InitFormatAdvDis ==
    /\ pc = "format"
    /\ command \in {"/adv", "/dis"}
    /\ request_form = Form(command, <<>>)
    /\ slack_dict = parse_slack_message(request_form)
    /\ \E a \in 1..MaxFace, b \in 1..MaxFace, m \in (0 - MaxMod)..MaxMod :
           /\ parsed_roll = ParseOk(2, 20, m)
           /\ rolled_dice = <<[total |-> a + b + m, rolls |-> <<a, b>>, modifier |-> m]>>
    /\ output = <<>>
    /\ response = NoResponse
    /\ entropy = 0
    /\ draws = <<>>

SpecFormatAdvDis == InitFormatAdvDis /\ [][FormatRoll]_vars

\* roll sequences of 3, 4 or 5 small dice
StatRolls(n) == [1..n -> 1..MaxStatFace]

StatOutcome(rolls) == [total |-> sum(rolls), rolls |-> rolls, modifier |-> 0]

\* format_character_roll on lists of 5 or 7 four-roll outcomes b, and on
\* lists of 6 outcomes: four-roll outcomes b with one outcome a of 3, 4 or 5
\* rolls among them
InitFormatCharacter ==
    /\ pc = "format"
    /\ command = "/character"
    /\ request_form = Form(command, <<>>)
    /\ slack_dict = parse_slack_message(request_form)
    /\ parsed_roll = ParseOk(4, 6, 0)
    /\ \/ \E n \in {5, 7}, b \in StatRolls(4) :
              rolled_dice = [i \in 1..n |-> StatOutcome(b)]
       \/ \E len \in 3..5 :
            \E k \in 1..6, a \in StatRolls(len), b \in StatRolls(4) :
              rolled_dice = [i \in 1..6 |-> IF i = k THEN StatOutcome(a) ELSE StatOutcome(b)]
    /\ output = <<>>
    /\ response = NoResponse
    /\ entropy = 0
    /\ draws = <<>>

SpecFormatCharacter == InitFormatCharacter /\ [][FormatRoll]_vars

-----------------------------------------------------------------------------
(* Properties.                                                             *)

\* the roll text parse_roll works on: the mode's text with the spaces removed
RollText ==
    Remove(input_roll_string(slack_dict.text, command \in {"/adv", "/dis"},
                             command = "/character"), " ")

\* parse_roll has returned or raised
Parsed == pc # "parse" /\ parsed_roll # Unset

AllDigits(s) == Len(s) > 0 /\ \A i \in 1..Len(s) : s[i] \in {"0", "1", "2", "3", "4", "5", "6", "7", "8", "9"}

\* the number a decimal numeral denotes
RECURSIVE Decimal(_)
Decimal(s) ==
    IF s = <<>> THEN 0
    ELSE Decimal(SubSeq(s, 1, Len(s) - 1)) * 10
         + (CHOOSE v \in 0..9 : <<"0", "1", "2", "3", "4", "5", "6", "7", "8", "9">>[v + 1] = s[Len(s)])

\* C1: every roll specification parse_roll returns, in any mode and for any
\* text, has diceCount in 1..99 and dieSize in 1..100.
C1_SpecInRange ==
    (Parsed /\ parsed_roll.ok) =>
        (parsed_roll.num_dice \in 1..99 /\ parsed_roll.die \in 1..100)

\* C2: a /character command, whatever its text, draws 4d6 six times and
\* ends in a public reply: the stat-block header and six drop-lowest lines.
C2_CharacterBlockSucceeds ==
    (command = "/character" /\ slack_dict.ok /\ pc = "done") =>
        /\ Len(rolled_dice) = 6
        /\ \A i \in 1..Len(rolled_dice) :
               /\ Len(rolled_dice[i].rolls) = 4
               /\ \A j \in 1..4 : rolled_dice[i].rolls[j] \in 1..6
        /\ response.response_type = "in_channel"
        /\ response.text = slack_dict.username \o <<" rolled a stat block:", "\n">>
                           \o stat_lines(rolled_dice)

\* C3: in Advantage/Disadvantage mode every specification parse_roll
\* returns is 2d20, whatever the text.
C3_AdvantageIsTwoD20 ==
    (command = "/adv" /\ Parsed /\ parsed_roll.ok) =>
        (parsed_roll.num_dice = 2 /\ parsed_roll.die = 20)

C5_BadDiceCountRejected ==
    Parsed =>
        \A i \in 1..Len(RollText) :
            LET count == SubSeq(RollText, 1, i - 1)
            IN (RollText[i] = "d" /\ (\A j \in 1..(i - 1) : RollText[j] # "d")
                /\ (~AllDigits(count) \/ Decimal(count) <= 0)) =>
               ~parsed_roll.ok

\* the sign characters of s
SignCount(s) == Cardinality({i \in 1..Len(s) : s[i] \in {"+", "-"}})

\* C6: parse_roll rejects every roll text with more than one sign character
\* after the 'd', and a modifier introduced by '+' is never stored negative.
C6_SecondSignRejected ==
    Parsed =>
        \A i \in 1..Len(RollText) :
            (RollText[i] = "d" /\ (\A j \in 1..(i - 1) : RollText[j] # "d")) =>
                LET tail == SubSeq(RollText, i + 1, Len(RollText))
                IN /\ SignCount(tail) > 1 => ~parsed_roll.ok
                   /\ (parsed_roll.ok /\ find(tail, "+") >= 0
                       /\ (find(tail, "-") < 0 \/ find(tail, "+") < find(tail, "-")))
                      => parsed_roll.modifier >= 0

\* the sum of a sequence, from its last element
RECURSIVE SeqSum(_)
SeqSum(q) == IF Len(q) = 0 THEN 0 ELSE SeqSum(SubSeq(q, 1, Len(q) - 1)) + q[Len(q)]

\* C7: with diceCount >= 1 and dieSize >= 1, generate_roll returns exactly
\* diceCount rolls, each in 1..dieSize, in the order drawn, the modifier of
\* the specification, and total = sum(rolls) + modifier; dieSize = 1 gives
\* rolls of 1 only.  With diceCount <= 0 or dieSize <= 0 it raises and
\* returns no outcome.
C7_GenerateRoll ==
    (command = "/roll" /\ pc \in {"format", "done"}) =>
        IF parsed_roll.num_dice >= 1 /\ parsed_roll.die >= 1
        THEN /\ pc = "format"
             /\ Len(rolled_dice) = 1
             /\ Len(rolled_dice[1].rolls) = parsed_roll.num_dice
             /\ \A i \in 1..Len(rolled_dice[1].rolls) :
                    /\ rolled_dice[1].rolls[i] >= 1
                    /\ rolled_dice[1].rolls[i] <= parsed_roll.die
                    /\ parsed_roll.die = 1 => rolled_dice[1].rolls[i] = 1
             /\ rolled_dice[1].rolls = draws
             /\ rolled_dice[1].modifier = parsed_roll.modifier
             /\ rolled_dice[1].total = SeqSum(rolled_dice[1].rolls) + parsed_roll.modifier
        ELSE /\ pc = "done"
             /\ rolled_dice = <<>>
             /\ draws = <<>>
             /\ response.response_type = "ephemeral"

\* three dice were rolled, not in ascending order, with a negative modifier
C7_Witness ==
    /\ pc = "format"
    /\ Len(rolled_dice) = 1
    /\ Len(rolled_dice[1].rolls) = 3
    /\ rolled_dice[1].rolls[1] > rolled_dice[1].rolls[2]
    /\ rolled_dice[1].rolls[3] > rolled_dice[1].rolls[2]
    /\ rolled_dice[1].modifier < 0

\* the die kept: the first on a tie
KeptIndex(rolls, adv) ==
    IF adv THEN (IF rolls[1] >= rolls[2] THEN 1 ELSE 2)
    ELSE (IF rolls[1] <= rolls[2] THEN 1 ELSE 2)

\* a die as rendered: the kept one emphasised, the other struck through
Rendered(rolls, i, kept) ==
    IF i = kept THEN <<"*">> \o str(rolls[i]) \o <<"*">>
    ELSE <<"~">> \o str(rolls[i]) \o <<"~">>

SixByFour ==
    /\ Len(rolled_dice) = 6
    /\ \A i \in 1..Len(rolled_dice) : Len(rolled_dice[i].rolls) = 4

\* the line of four rolls taken in the order p
LineInOrder(rolls, p) ==
    <<"~">> \o str(rolls[p[1]]) \o <<"~", " ">>
    \o str(rolls[p[2]]) \o <<" + ">> \o str(rolls[p[3]]) \o <<" + ">>
    \o str(rolls[p[4]]) \o <<" = ", "*">>
    \o str(rolls[1] + rolls[2] + rolls[3] + rolls[4] - rolls[p[1]]) \o <<"*", "\n">>

\* the orders of four positions
Orders == Permutations(1..4)

\* the orders that list four rolls ascending
AscendingOrders(rolls) ==
    {p \in Orders : \A i \in 1..3 : rolls[p[i]] <= rolls[p[i + 1]]}

\* C9: format_character_roll renders six four-roll outcomes as six lines in
\* outcome order; each strikes through the minimum of its four rolls, lists
\* the other three ascending and emphasises the sum of the four less the
\* minimum.
C9_StatBlockLines ==
    (command = "/character" /\ pc = "done" /\ SixByFour) =>
        /\ response.response_type = "in_channel"
        /\ response.text = output
        /\ LET ps == [i \in 1..6 |-> CHOOSE p \in AscendingOrders(rolled_dice[i].rolls) : TRUE]
           IN /\ \A i \in 1..6 : \A j \in 1..4 :
                     rolled_dice[i].rolls[ps[i][1]] <= rolled_dice[i].rolls[j]
              /\ output = slack_dict.username \o <<" rolled a stat block:", "\n">>
                          \o LineInOrder(rolled_dice[1].rolls, ps[1])
                          \o LineInOrder(rolled_dice[2].rolls, ps[2])
                          \o LineInOrder(rolled_dice[3].rolls, ps[3])
                          \o LineInOrder(rolled_dice[4].rolls, ps[4])
                          \o LineInOrder(rolled_dice[5].rolls, ps[5])
                          \o LineInOrder(rolled_dice[6].rolls, ps[6])

\* a stat block was formatted whose second outcome is not in ascending
\* order and differs from the first
C9_Witness ==
    /\ command = "/character"
    /\ pc = "done"
    /\ SixByFour
    /\ rolled_dice[2].rolls[1] > rolled_dice[2].rolls[4]
    /\ rolled_dice[2].total > rolled_dice[1].total
    /\ response.response_type = "in_channel"

\* C10: format_character_roll raises, and returns no string, when the
\* number of outcomes is not 6 or an outcome has fewer or more than 4 rolls.
C10_WrongShapeRejected ==
    (command = "/character" /\ pc = "done" /\ ~SixByFour) =>
        (response.response_type = "ephemeral" /\ output = <<>>)

\* the position of a step in the order parse_slack_message, parse,
\* generate, format, reply sent
StageRank(stage) ==
    CASE stage = "slack" -> 0
      [] stage = "parse" -> 1
      [] stage = "generate" -> 2
      [] stage = "format" -> 3
      [] OTHER -> 4

\* every generate_roll call the route makes has returned
AllGenerated == Len(rolled_dice) = (IF command = "/character" THEN 6 ELSE 1)

\* one step of a command keeps the order of the stages: no step back, the
\* parse runs once, generation follows a successful parse only, formatting
\* follows the last successful generation only, and a failed stage or the
\* reply ends the command
StagesInOrder ==
    /\ StageRank(pc') >= StageRank(pc)
    /\ pc = "parse" => pc' # "parse"
    /\ (pc' = "generate" /\ pc # "generate") => (pc = "parse" /\ parsed_roll'.ok)
    /\ pc' = "format" => (pc = "generate" /\ parsed_roll.ok /\ AllGenerated'
                          /\ Len(rolled_dice') = Len(rolled_dice) + 1)
    /\ (pc = "parse" /\ ~parsed_roll'.ok) => pc' = "done"
    /\ (pc = "generate" /\ rolled_dice' = rolled_dice) => pc' = "done"
    /\ pc = "format" => pc' = "done"
    /\ draws' # draws => (pc = "generate" /\ parsed_roll.ok)
    /\ output' # output => (pc = "format" /\ AllGenerated)
    /\ pc = "done" => UNCHANGED vars

\* where a command stands: nothing is drawn without a successful parse,
\* nothing is formatted without all the rolls, no reply is sent before the
\* end, a command with a failed stage ends in an ephemeral reply and one
\* whose three stages succeeded in an in_channel reply carrying the output
StagesAndReply ==
    /\ pc \in {"generate", "format"} => parsed_roll.ok
    /\ pc = "format" => AllGenerated
    /\ ~parsed_roll.ok => (draws = <<>> /\ rolled_dice = <<>> /\ output = <<>>)
    /\ ~AllGenerated => output = <<>>
    /\ pc # "done" => (response = NoResponse /\ output = <<>>)
    /\ pc = "done" =>
          IF parsed_roll.ok /\ AllGenerated /\ output # <<>>
          THEN response.response_type = "in_channel" /\ response.text = output
          ELSE response.response_type = "ephemeral"

\* C11: each command runs parse, generate, format in that order with no
\* retry and no step back; generation starts only after a successful parse,
\* formatting only after successful generation; once a stage fails no later
\* stage runs (a failed parse draws no random value) and the reply is
\* ephemeral; when the three stages succeed the reply is in_channel.
C11_PipelineOrder == [][StagesInOrder]_vars /\ []StagesAndReply

\* a command whose parse failed has ended: nothing drawn, ephemeral reply
C11_Witness ==
    /\ pc = "done"
    /\ slack_dict.ok
    /\ ~parsed_roll.ok
    /\ parsed_roll.exc = "DicebotException"
    /\ draws = <<>>
    /\ rolled_dice = <<>>
    /\ response.response_type = "ephemeral"

====
